---- MODULE Spec2Model ----
(***************************************************************************)
(* Model of RimJur/risk_and_returns.                                       *)
(*                                                                         *)
(*   main.py                    per-ticker yearly return/volatility tables *)
(*                              and the synthetic INDEX built from them    *)
(*   extract_historical_data.py one CSV of raw daily history per ticker    *)
(*                                                                         *)
(* Number representation.  The code works in floating point with log, exp *)
(* and sqrt.  The model keeps every quantity exact:                        *)
(*   - a missing value (polars null) is Null, the empty tuple;             *)
(*   - a rational is a reduced pair <<n, d>> with d > 0;                   *)
(*   - close prices are powers of two, so a log-return is an integer       *)
(*     number of units of ln 2, held as <<n, 1>>;                          *)
(*   - a standard deviation is held as its square (the variance);          *)
(*   - exp(x) - 1 is held as its exponent x (in units of ln 2);            *)
(*   - a mean of such irrational values (the INDEX columns) is held as the *)
(*     sequence of its terms and its divisor.                              *)
(***************************************************************************)
EXTENDS Integers, Sequences, FiniteSets

\* ------------------------------------------------------------------------
\* Program constants (main.py lines 8-15, 92, 173)
\* ------------------------------------------------------------------------
WEEKS_IN_A_YEAR == 52
BRK_B == "BRK-B"
HP == "HP"
TSLA == "TSLA"
GME == "GME"
NVDA == "NVDA"
SPY == "SPY"
TICKERS == <<BRK_B, HP, TSLA, GME, NVDA>>
EXCLUDED_YEAR == 2025
INDEX == "INDEX"

\* ------------------------------------------------------------------------
\* Bounds of the model
\* ------------------------------------------------------------------------
\* longest weekly price series the provider returns for one ticker
MaxRows == 3
\* longest daily price series the provider returns to the extraction script
MaxDays == 1
\* calendar years the provider's weekly bars fall in
Years == {2024, 2025, 2026}
\* calendar years the provider's daily bars fall in
DailyYears == {2026}
\* close prices (powers of two)
Closes == {1, 2}

Null == <<>>

\* ------------------------------------------------------------------------
\* Exact arithmetic
\* ------------------------------------------------------------------------
Abs(x) == IF x < 0 THEN -x ELSE x

RECURSIVE GCD(_, _)
GCD(a, b) == IF b = 0 THEN a ELSE GCD(b, a % b)

\* the rational n/d in lowest terms with a positive denominator
Rat(n, d) ==
    LET s == IF d < 0 THEN -1 ELSE 1
        g == GCD(Abs(n), Abs(d))
    IN  <<(s * n) \div g, (s * d) \div g>>

RatAdd(a, b) == Rat(a[1] * b[2] + b[1] * a[2], a[2] * b[2])
RatSub(a, b) == Rat(a[1] * b[2] - b[1] * a[2], a[2] * b[2])
RatMul(a, b) == Rat(a[1] * b[1], a[2] * b[2])

RECURSIVE RatSum(_)
RatSum(col) == IF col = <<>> THEN <<0, 1>> ELSE RatAdd(Head(col), RatSum(Tail(col)))

\* log of a close price, in units of ln 2 (closes are powers of two)
Log2(c) == CHOOSE k \in 0..8 : 2 ^ k = c

\* ------------------------------------------------------------------------
\* polars column aggregations (nulls are skipped)
\* ------------------------------------------------------------------------
IsNull(v) == v = Null

DropNulls(col) == SelectSeq(col, LAMBDA v : ~IsNull(v))

\* pl.count(column): the number of non-null values
Count(col) == Len(DropNulls(col))

\* Expr.mean() of a column of rationals: null when no value is defined
Mean(col) ==
    IF Count(col) = 0 THEN Null
    ELSE RatMul(RatSum(DropNulls(col)), <<1, Count(col)>>)

\* variant: ddof = 0, the population variance (sum(x^2) / n - (sum(x) / n)^2)
StdPopulation(col) ==
    LET xs == DropNulls(col)
        n  == Len(xs)
        sq == [i \in DOMAIN xs |-> RatMul(xs[i], xs[i])]
        s  == RatSum(xs)
    IN  IF n = 0 THEN Null
        ELSE RatMul(RatSub(RatMul(<<n, 1>>, RatSum(sq)), RatMul(s, s)), <<1, n * n>>)

\* Expr.std(), ddof = 1, held as the sample variance
\*   (n * sum(x^2) - sum(x)^2) / (n * (n - 1));  null with fewer than 2 values
Std(col) ==
    LET xs == DropNulls(col)
        n  == Len(xs)
        sq == [i \in DOMAIN xs |-> RatMul(xs[i], xs[i])]
        s  == RatSum(xs)
    IN  IF n <= 1 THEN Null
        ELSE RatMul(RatSub(RatMul(<<n, 1>>, RatSum(sq)), RatMul(s, s)),
                    <<1, n * (n - 1)>>)

\* Expr.mean() of a column of irrational values: <<terms, divisor>>
MeanOfTerms(col) ==
    IF Count(col) = 0 THEN Null ELSE <<DropNulls(col), Count(col)>>

\* ------------------------------------------------------------------------
\* The data provider: yf.Ticker(t).history(...).reset_index()
\*
\* A successful call answers with a non-empty frame of bars in date order
\* whose closes are defined and positive.  Anything else the provider can do
\* (an exception, or an empty frame, on which the first statements of the
\* scripts raise) is the failure of the call.
\* ------------------------------------------------------------------------
NonDecreasing(ys) == \A i \in 1..(Len(ys) - 1) : ys[i] <= ys[i + 1]

\* position of bar i among the bars of its own year
WeekOf(ys, i) == Cardinality({j \in 1..i : ys[j] = ys[i]})

\* provider frame: a Date column with intraday precision and a Close column
RawFrame(ys, cs) ==
    [i \in 1..Len(ys) |->
        [Date  |-> [year |-> ys[i], week |-> WeekOf(ys, i), time |-> "00:00"],
         Close |-> cs[i]]]

\* every non-empty price series in date order, of at most n bars
Series(n, years) ==
    UNION {{RawFrame(ys, cs) : ys \in {s \in [1..k -> years] : NonDecreasing(s)},
                               cs \in [1..k -> Closes]} : k \in 1..n}

\* history(period="max", interval="1wk")
Histories == Series(MaxRows, Years)

\* history(period="1y")
DailyHistories == Series(MaxDays, DailyYears)

\* ------------------------------------------------------------------------
\* main.py: clean_historical_data
\* ------------------------------------------------------------------------
\* cast({"Date": pl.Date}) drops the time of day
CastDate(ts) == [year |-> ts.year, week |-> ts.week]

\* dt.year()
YearOf(date) == date.year

clean_historical_data(ticker, df_pd) ==
    [i \in DOMAIN df_pd |->
        [date   |-> CastDate(df_pd[i].Date),
         close  |-> df_pd[i].Close,
         year   |-> YearOf(CastDate(df_pd[i].Date)),
         ticker |-> ticker]]

\* ------------------------------------------------------------------------
\* main.py: calculate_returns_and_std
\* ------------------------------------------------------------------------
\* variant: the shift runs within each year
log_returns_within_year(df_pl) ==
    [i \in DOMAIN df_pl |->
        IF i = 1 \/ df_pl[i].year # df_pl[i - 1].year THEN Null
        ELSE <<Log2(df_pl[i].close) - Log2(df_pl[i - 1].close), 1>>]

\* np.log(close / close.shift(1)): the shift runs over the whole frame
log_returns(df_pl) ==
    [i \in DOMAIN df_pl |->
        IF i = 1 THEN Null
        ELSE <<Log2(df_pl[i].close) - Log2(df_pl[i - 1].close), 1>>]

\* df_pl.with_columns(log_returns=...)
WithLogReturns(df_pl) ==
    [i \in DOMAIN df_pl |->
        [date        |-> df_pl[i].date,
         close       |-> df_pl[i].close,
         year        |-> df_pl[i].year,
         ticker      |-> df_pl[i].ticker,
         log_returns |-> log_returns(df_pl)[i]]]

\* the log_returns column of one group of group_by("year"), in frame order
GroupColumn(df, y) ==
    LET g == SelectSeq(df, LAMBDA r : r.year = y)
    IN  [k \in DOMAIN g |-> g[k].log_returns]

\* df_pl.select(pl.col("ticker"))[0]
TickerOf(df) == df[1].ticker

\* group_by("year").agg(...).with_columns(ticker=...): one row per group,
\* in no particular order
YearlyAgg(df) ==
    {[year               |-> y,
      yearly_log_returns |-> Mean(GroupColumn(df, y)),
      yearly_std         |-> Std(GroupColumn(df, y)),
      count              |-> Count(GroupColumn(df, y)),
      ticker             |-> TickerOf(df)] :
        y \in {df[i].year : i \in DOMAIN df}}

\* yearly_std * sqrt(WEEKS_IN_A_YEAR), on the variance: var * WEEKS_IN_A_YEAR
AnnualizedStd(yearly_std) ==
    IF IsNull(yearly_std) THEN Null
    ELSE RatMul(yearly_std, <<WEEKS_IN_A_YEAR, 1>>)

\* exp(yearly_log_returns * 52) - 1, held as the exponent
AnnualizedLogReturns(yearly_log_returns) ==
    IF IsNull(yearly_log_returns) THEN Null
    ELSE RatMul(yearly_log_returns, <<52, 1>>)

Annualize(r) ==
    [ticker                 |-> r.ticker,
     year                   |-> r.year,
     annualized_log_returns |-> AnnualizedLogReturns(r.yearly_log_returns),
     annualized_std         |-> AnnualizedStd(r.yearly_std)]

\* lexicographic order of the ticker identifiers
TickerOrder == <<BRK_B, GME, HP, NVDA, SPY, TSLA>>

TickerRank(t) == CHOOSE k \in DOMAIN TickerOrder : TickerOrder[k] = t

\* sort key (ticker, year)
RowLess(a, b) ==
    \/ TickerRank(a.ticker) < TickerRank(b.ticker)
    \/ a.ticker = b.ticker /\ a.year < b.year

\* variant: the rows come out latest year first
RECURSIVE SortByTickerYearDescending(_)
SortByTickerYearDescending(rows) ==
    IF rows = {} THEN <<>>
    ELSE LET m == CHOOSE r \in rows : \A q \in rows \ {r} : RowLess(q, r)
         IN  <<m>> \o SortByTickerYearDescending(rows \ {m})

\* .sort(pl.col("ticker"), pl.col("year"))
RECURSIVE SortByTickerYear(_)
SortByTickerYear(rows) ==
    IF rows = {} THEN <<>>
    ELSE LET m == CHOOSE r \in rows : \A q \in rows \ {r} : RowLess(r, q)
         IN  <<m>> \o SortByTickerYear(rows \ {m})

\* yearly.with_columns(...).select(...).sort(...)
AnnualizedOf(rows) == SortByTickerYear({Annualize(r) : r \in rows})

calculate_returns_and_std(df_pl) == AnnualizedOf(YearlyAgg(WithLogReturns(df_pl)))

\* ------------------------------------------------------------------------
\* main.py: concat_selected_tickers (the part after the loop)
\* ------------------------------------------------------------------------
\* pl.concat(ticker_dfs): the frames one after another, in list order
RECURSIVE Concat(_)
Concat(dfs) == IF dfs = <<>> THEN <<>> ELSE Head(dfs) \o Concat(Tail(dfs))

\* variant: the filter is left out
FilterYearOmitted(df) == df

\* .filter(pl.col("year") != 2025)
FilterYear(df) == SelectSeq(df, LAMBDA r : r.year # EXCLUDED_YEAR)

\* ------------------------------------------------------------------------
\* main.py: construct_index
\* ------------------------------------------------------------------------
RowsOfYear(df, y) == SelectSeq(df, LAMBDA r : r.year = y)

\* variant: the rows come out latest year first
RECURSIVE SortByYearDescending(_)
SortByYearDescending(rows) ==
    IF rows = {} THEN <<>>
    ELSE LET m == CHOOSE r \in rows : \A q \in rows \ {r} : r.year > q.year
         IN  <<m>> \o SortByYearDescending(rows \ {m})

\* .sort("year")
RECURSIVE SortByYear(_)
SortByYear(rows) ==
    IF rows = {} THEN <<>>
    ELSE LET m == CHOOSE r \in rows : \A q \in rows \ {r} : r.year < q.year
         IN  <<m>> \o SortByYear(rows \ {m})

\* variant: missing values are not skipped by the divisor
IndexMeanOverAllRows(col) ==
    IF Len(col) = 0 THEN Null ELSE <<DropNulls(col), Len(col)>>

\* the mean aggregation of group_by("year").agg(...) on one column of a group
IndexMean(col) == MeanOfTerms(col)

construct_index(df) ==
    SortByYear(
        {[ticker                 |-> INDEX,
          year                   |-> y,
          annualized_log_returns |->
              IndexMean([k \in DOMAIN RowsOfYear(df, y) |->
                            RowsOfYear(df, y)[k].annualized_log_returns]),
          annualized_std         |->
              IndexMean([k \in DOMAIN RowsOfYear(df, y) |->
                            RowsOfYear(df, y)[k].annualized_std])] :
            y \in {df[i].year : i \in DOMAIN df}})

\* ------------------------------------------------------------------------
\* extract_historical_data.py
\* ------------------------------------------------------------------------
\* variant: the ticker is not interpolated into the file name
CsvPathFixed(ticker) == "extracted_data/ticker.csv"

CsvPath(ticker) == "extracted_data/" \o ticker \o ".csv"

\* pl.from_pandas(ticker_df).cast({"Date": pl.Date}).with_columns(ticker=...)
ExtractFrame(ticker, df_pd) ==
    [k \in DOMAIN df_pd |->
        [Date   |-> CastDate(df_pd[k].Date),
         Close  |-> df_pd[k].Close,
         ticker |-> ticker]]

\* the file system after write_csv(path) of a frame
WriteCsv(fs, path, df) ==
    [p \in DOMAIN fs \cup {path} |-> IF p = path THEN df ELSE fs[p]]

\* ------------------------------------------------------------------------
\* State
\* ------------------------------------------------------------------------
VARIABLES
    tickers,      \* main.py: the argument of concat_selected_tickers
    pc,           \* main.py: the statement the script is at
    i,            \* main.py: position of the loop in tickers
    calls,        \* main.py: tickers whose history has been requested, in order
    ticker_df,    \* concat_selected_tickers: local ticker_df
    ticker_dfs,   \* concat_selected_tickers: local ticker_dfs
    df_pl,        \* calculate_returns_and_std: local df_pl (with log_returns)
    yearly,       \* calculate_returns_and_std: local yearly
    combined_df,  \* main.py: module-level combined_df
    index_df,     \* main.py: module-level index_df
    bound,        \* main.py: the module-level names assigned so far
    x_pc,         \* extract_historical_data.py: the statement the script is at
    x_i,          \* extract_historical_data.py: position of the loop in TICKERS
    x_calls,      \* extract_historical_data.py: tickers requested, in order
    x_df,         \* extract_historical_data.py: ticker_df
    files         \* extract_historical_data.py: files written, path -> frame

main_vars == <<tickers, pc, i, calls, ticker_df, ticker_dfs, df_pl, yearly,
               combined_df, index_df, bound>>
extract_vars == <<x_pc, x_i, x_calls, x_df, files>>
vars == <<main_vars, extract_vars>>

\* the ticker lists concat_selected_tickers is run on: every run of one or
\* two consecutive entries of TICKERS, in their declared order
TickerLists ==
    {SubSeq(TICKERS, p[1], p[2]) :
        p \in {q \in (1..Len(TICKERS)) \X (1..Len(TICKERS)) :
                  q[1] <= q[2] /\ q[2] <= q[1] + 1}}

InitMain ==
    /\ pc = "history"
    /\ i = 1
    /\ calls = <<>>
    /\ ticker_df = <<>>
    /\ ticker_dfs = <<>>
    /\ df_pl = <<>>
    /\ yearly = {}
    /\ combined_df = <<>>
    /\ index_df = <<>>
    /\ bound = {}

InitExtract ==
    /\ x_pc = "history"
    /\ x_i = 1
    /\ x_calls = <<>>
    /\ x_df = <<>>
    /\ files = <<>>

Init == tickers \in TickerLists /\ InitMain /\ InitExtract

\* ------------------------------------------------------------------------
\* main.py, line 186: combined_df = concat_selected_tickers(TICKERS)
\* ------------------------------------------------------------------------
\* line 86-88: the provider answers with a price series
History ==
    /\ pc = "history"
    /\ \E h \in Histories : ticker_df' = h
    /\ calls' = Append(calls, tickers[i])
    /\ pc' = "clean"
    /\ UNCHANGED <<tickers, i, ticker_dfs, df_pl, yearly, combined_df, index_df, bound>>
    /\ UNCHANGED extract_vars

\* variant: the failure is caught and the loop goes on to the next ticker
HistoryFailsCaught ==
    /\ pc = "history"
    /\ calls' = Append(calls, tickers[i])
    /\ i' = i + 1
    /\ pc' = IF i = Len(tickers) THEN "concat" ELSE "history"
    /\ UNCHANGED <<tickers, ticker_df, ticker_dfs, df_pl, yearly, combined_df,
                   index_df, bound>>
    /\ UNCHANGED extract_vars

\* line 86-88: the provider call raises; nothing catches it
HistoryFails ==
    /\ pc = "history"
    /\ calls' = Append(calls, tickers[i])
    /\ pc' = "error"
    /\ UNCHANGED <<tickers, i, ticker_df, ticker_dfs, df_pl, yearly, combined_df,
                   index_df, bound>>
    /\ UNCHANGED extract_vars

\* line 89
Clean ==
    /\ pc = "clean"
    /\ ticker_df' = clean_historical_data(tickers[i], ticker_df)
    /\ pc' = "log_returns"
    /\ UNCHANGED <<tickers, i, calls, ticker_dfs, df_pl, yearly, combined_df,
                   index_df, bound>>
    /\ UNCHANGED extract_vars

\* line 90 -> lines 48-50
LogReturns ==
    /\ pc = "log_returns"
    /\ df_pl' = WithLogReturns(ticker_df)
    /\ pc' = "yearly"
    /\ UNCHANGED <<tickers, i, calls, ticker_df, ticker_dfs, yearly, combined_df,
                   index_df, bound>>
    /\ UNCHANGED extract_vars

\* lines 52-62
Yearly ==
    /\ pc = "yearly"
    /\ yearly' = YearlyAgg(df_pl)
    /\ pc' = "annualized"
    /\ UNCHANGED <<tickers, i, calls, ticker_df, ticker_dfs, df_pl, combined_df,
                   index_df, bound>>
    /\ UNCHANGED extract_vars

\* lines 64-80 and 90-91: the function returns (its locals are gone), the
\* result is appended and the loop moves on
Annualized ==
    /\ pc = "annualized"
    /\ ticker_df' = AnnualizedOf(yearly)
    /\ ticker_dfs' = Append(ticker_dfs, AnnualizedOf(yearly))
    /\ df_pl' = <<>>
    /\ yearly' = {}
    /\ i' = i + 1
    /\ pc' = IF i = Len(tickers) THEN "concat" ELSE "history"
    /\ UNCHANGED <<tickers, calls, combined_df, index_df, bound>>
    /\ UNCHANGED extract_vars

\* lines 92 and 186
ConcatFilter ==
    /\ pc = "concat"
    /\ combined_df' = FilterYear(Concat(ticker_dfs))
    /\ bound' = bound \cup {"combined_df"}
    /\ pc' = "index"
    /\ UNCHANGED <<tickers, i, calls, ticker_df, ticker_dfs, df_pl, yearly, index_df>>
    /\ UNCHANGED extract_vars

\* line 187
ConstructIndex ==
    /\ pc = "index"
    /\ index_df' = construct_index(combined_df)
    /\ bound' = bound \cup {"index_df"}
    /\ pc' = "done"
    /\ UNCHANGED <<tickers, i, calls, ticker_df, ticker_dfs, df_pl, yearly, combined_df>>
    /\ UNCHANGED extract_vars

Next ==
    \/ History
    \/ HistoryFails
    \/ Clean
    \/ LogReturns
    \/ Yearly
    \/ Annualized
    \/ ConcatFilter
    \/ ConstructIndex

Spec == Init /\ [][Next]_vars

\* ------------------------------------------------------------------------
\* extract_historical_data.py, lines 12-19
\* ------------------------------------------------------------------------
\* line 13
XHistory ==
    /\ x_pc = "history"
    /\ x_i <= Len(TICKERS)
    /\ \E h \in DailyHistories : x_df' = h
    /\ x_calls' = Append(x_calls, TICKERS[x_i])
    /\ x_pc' = "write"
    /\ UNCHANGED <<x_i, files>>
    /\ UNCHANGED main_vars

\* line 13: the provider call raises
XHistoryFails ==
    /\ x_pc = "history"
    /\ x_i <= Len(TICKERS)
    /\ x_calls' = Append(x_calls, TICKERS[x_i])
    /\ x_pc' = "error"
    /\ UNCHANGED <<x_i, x_df, files>>
    /\ UNCHANGED main_vars

\* lines 15-19
XWrite ==
    /\ x_pc = "write"
    /\ files' = WriteCsv(files, CsvPath(TICKERS[x_i]), ExtractFrame(TICKERS[x_i], x_df))
    /\ x_i' = x_i + 1
    /\ x_pc' = IF x_i = Len(TICKERS) THEN "done" ELSE "history"
    /\ UNCHANGED <<x_calls, x_df>>
    /\ UNCHANGED main_vars

\* lines 15-19: the conversion or the write raises before a file is created
XWriteFails ==
    /\ x_pc = "write"
    /\ x_pc' = "error"
    /\ UNCHANGED <<x_i, x_calls, x_df, files>>
    /\ UNCHANGED main_vars

NextExtract ==
    \/ XHistory
    \/ XHistoryFails
    \/ XWrite
    \/ XWriteFails

InitX == tickers = TICKERS /\ InitMain /\ InitExtract

SpecExtract == InitX /\ [][NextExtract]_vars

\* ========================================================================
\* Properties
\* ========================================================================
\* the years of the rows of a frame
YearsIn(df) == {df[k].year : k \in DOMAIN df}

\* the rows of a frame
RowsIn(df) == {df[k] : k \in DOMAIN df}

\* the years for which price data was retrieved (every bar's year yields a
\* row of its ticker's yearly table)
ObservedYears == UNION {YearsIn(ticker_dfs[j]) : j \in DOMAIN ticker_dfs}

Max(S) == CHOOSE x \in S : \A z \in S : z <= x

\* C1: the table returned by concat_selected_tickers has no row of year 2025,
\* has every row of the per-ticker yearly tables whose year is not 2025, and
\* the index built from it has no row of year 2025.
C1_No2025 ==
    /\ "combined_df" \in bound =>
          /\ 2025 \notin YearsIn(combined_df)
          /\ \A j \in DOMAIN ticker_dfs : \A r \in RowsIn(ticker_dfs[j]) :
                r.year # 2025 => r \in RowsIn(combined_df)
    /\ "index_df" \in bound => 2025 \notin YearsIn(index_df)

\* C1 witness: a finished run in which 2025 rows and other rows were computed
C1_Witness ==
    /\ pc = "done"
    /\ 2025 \in ObservedYears
    /\ combined_df # <<>>
    /\ index_df # <<>>

\* C2: in the final results every year is a year with observed price data,
\* and the latest year present in the retrieved data is excluded, whatever
\* that year is.
C2_LatestYearExcluded ==
    pc = "done" =>
        /\ YearsIn(combined_df) \subseteq ObservedYears
        /\ YearsIn(index_df) \subseteq ObservedYears
        /\ Max(ObservedYears) \notin YearsIn(combined_df)
        /\ Max(ObservedYears) \notin YearsIn(index_df)

\* the values of one column of the rows of year y, in table order
ReturnsOfYear(df, y) ==
    [k \in DOMAIN RowsOfYear(df, y) |-> RowsOfYear(df, y)[k].annualized_log_returns]

StdsOfYear(df, y) ==
    [k \in DOMAIN RowsOfYear(df, y) |-> RowsOfYear(df, y)[k].annualized_std]

\* the tickers with a row for year y
TickersOfYear(df, y) == {r.ticker : r \in RowsIn(RowsOfYear(df, y))}

\* number of positions of a sequence holding x
Occurrences(seq, x) == Cardinality({k \in DOMAIN seq : seq[k] = x})

\* m is the unweighted mean of exactly the values vals (a sequence, all defined)
IsMeanOf(m, vals) ==
    /\ m # Null
    /\ m[2] = Len(vals)
    /\ Len(m[1]) = Len(vals)
    /\ \A k \in DOMAIN vals : Occurrences(m[1], vals[k]) = Occurrences(vals, vals[k])

\* C3 as stated: the INDEX annualized_log_returns of year Y is the unweighted
\* mean over exactly the tickers that have a row for Y.
C3_MeanOverTickersWithRow ==
    "index_df" \in bound =>
        \A r \in RowsIn(index_df) :
            r.annualized_log_returns # Null =>
                /\ IsMeanOf(r.annualized_log_returns, ReturnsOfYear(combined_df, r.year))
                /\ r.annualized_log_returns[2] =
                      Cardinality(TickersOfYear(combined_df, r.year))

\* C3 amended: the INDEX annualized_log_returns of year Y is the unweighted
\* mean over exactly the tickers that have a row for Y with a defined
\* annualized_log_returns (missing when there is none); a ticker with no row
\* for Y, or with a missing value for Y, neither adds a term nor enlarges
\* the divisor.
C3_MeanOverDefinedReturns ==
    "index_df" \in bound =>
        \A r \in RowsIn(index_df) :
            LET vals == DropNulls(ReturnsOfYear(combined_df, r.year))
            IN  IF vals = <<>> THEN r.annualized_log_returns = Null
                ELSE /\ IsMeanOf(r.annualized_log_returns, vals)
                     /\ r.annualized_log_returns[2] =
                           Cardinality({q.ticker : q \in
                               {q \in RowsIn(RowsOfYear(combined_df, r.year)) :
                                   q.annualized_log_returns # Null}})

\* C3 witness: a year in which one ticker has a defined return, another ticker
\* has a row with a missing return, and the index has been built
C3_Witness ==
    /\ pc = "done"
    /\ \E r \in RowsIn(index_df) :
          /\ r.annualized_log_returns # Null
          /\ r.annualized_log_returns[2] = 1
          /\ Len(RowsOfYear(combined_df, r.year)) = 2
    /\ \E r \in RowsIn(index_df) :
          /\ r.annualized_log_returns # Null
          /\ r.annualized_log_returns[2] = 2

\* C9 as stated: the INDEX annualized_std of year Y is the unweighted mean of
\* annualized_std over all tickers present in Y, the same tickers as for the
\* INDEX annualized_log_returns, also when one of them has a missing std.
C9_StdOverAllPresent ==
    "index_df" \in bound =>
        \A r \in RowsIn(index_df) :
            r.annualized_std # Null =>
                /\ IsMeanOf(r.annualized_std, StdsOfYear(combined_df, r.year))
                /\ r.annualized_log_returns # Null
                /\ r.annualized_std[2] = r.annualized_log_returns[2]
                /\ r.annualized_std[2] = Cardinality(TickersOfYear(combined_df, r.year))

\* C9 amended: the INDEX annualized_std of year Y is the unweighted mean of
\* annualized_std over the tickers present in Y whose annualized_std for Y is
\* defined, and is missing when there is none; this set is a subset of, and
\* can be smaller than, the set behind the INDEX annualized_log_returns.
C9_StdOverDefinedStds ==
    "index_df" \in bound =>
        \A r \in RowsIn(index_df) :
            LET vals == DropNulls(StdsOfYear(combined_df, r.year))
            IN  /\ IF vals = <<>> THEN r.annualized_std = Null
                   ELSE IsMeanOf(r.annualized_std, vals)
                /\ r.annualized_std # Null =>
                      /\ r.annualized_log_returns # Null
                      /\ r.annualized_std[2] <= r.annualized_log_returns[2]

\* C9 witness: an INDEX row whose std averages fewer tickers than its return
C9_Witness ==
    /\ pc = "done"
    /\ \E r \in RowsIn(index_df) :
          /\ r.annualized_std # Null
          /\ r.annualized_std[2] < r.annualized_log_returns[2]

\* C4: construct_index returns exactly one row per distinct year of the
\* combined table and none for another year, every row is labelled "INDEX",
\* and the rows are in strictly ascending year order.
C4_IndexRows ==
    "index_df" \in bound =>
        /\ YearsIn(index_df) = YearsIn(combined_df)
        /\ Len(index_df) = Cardinality(YearsIn(combined_df))
        /\ \A k \in DOMAIN index_df : index_df[k].ticker = "INDEX"
        /\ \A k \in 1..(Len(index_df) - 1) : index_df[k].year < index_df[k + 1].year

\* C4 witness: an index of two years, one of them shared by two tickers
C4_Witness ==
    /\ pc = "done"
    /\ Len(index_df) >= 2
    /\ \E y \in YearsIn(combined_df) : Len(RowsOfYear(combined_df, y)) = 2

\* position of a ticker in the list passed to concat_selected_tickers
PositionOf(t) == CHOOSE k \in DOMAIN tickers : tickers[k] = t

\* C5 as stated: the combined table is in ascending order of ticker
\* identifier, then strictly ascending year.
C5_AscendingTickerIdentifier ==
    "combined_df" \in bound =>
        \A k \in 1..(Len(combined_df) - 1) : RowLess(combined_df[k], combined_df[k + 1])

\* C5 amended: for a list of distinct tickers the combined table is
\* ticker-major in the order of the list passed in (not of the identifiers):
\* the rows of one ticker are contiguous, the tickers follow each other as in
\* the list, and within one ticker the years are strictly ascending.
C5_ListOrderThenYear ==
    "combined_df" \in bound =>
        \A k \in 1..(Len(combined_df) - 1) :
            \/ /\ combined_df[k].ticker = combined_df[k + 1].ticker
               /\ combined_df[k].year < combined_df[k + 1].year
            \/ PositionOf(combined_df[k].ticker) < PositionOf(combined_df[k + 1].ticker)

\* C5 witness: two tickers listed against the order of their identifiers,
\* each with rows of two years in the combined table
C5_Witness ==
    /\ pc = "done"
    /\ Len(tickers) = 2
    /\ TickerRank(tickers[2]) < TickerRank(tickers[1])
    /\ Len(combined_df) = 4
    /\ combined_df[1].ticker = combined_df[2].ticker
    /\ combined_df[3].ticker = combined_df[4].ticker
    /\ combined_df[2].ticker # combined_df[3].ticker

\* the rows of df_pl of year y
BarsOfYear(y) == {k \in DOMAIN df_pl : df_pl[k].year = y}

\* the rows of df_pl of year y whose log-return is defined
DefinedReturnsOfYear(y) == {k \in BarsOfYear(y) : df_pl[k].log_returns # Null}

\* C6: tickers are retrieved and processed strictly one after another in list
\* order; a failed retrieval is not caught: the script ends in an error state,
\* no later ticker is retrieved and neither combined_df nor index_df is
\* produced.
C6_FailureStopsScript ==
    /\ Len(calls) <= Len(tickers)
    /\ calls = SubSeq(tickers, 1, Len(calls))
    /\ Len(ticker_dfs) <= Len(calls)
    /\ Len(calls) <= Len(ticker_dfs) + 1
    /\ pc = "history" => Len(calls) = Len(ticker_dfs)
    /\ \A j \in DOMAIN ticker_dfs : \A r \in RowsIn(ticker_dfs[j]) : r.ticker = tickers[j]
    /\ "combined_df" \in bound => Len(ticker_dfs) = Len(tickers)
    /\ "index_df" \in bound => "combined_df" \in bound
    /\ pc = "error" =>
          /\ bound = {}
          /\ combined_df = <<>>
          /\ index_df = <<>>
          /\ ~ENABLED Next

\* C6 witness: the retrieval of the second ticker failed after the first
\* ticker's table had been computed
C6_Witness ==
    /\ pc = "error"
    /\ Len(calls) = 2
    /\ Len(ticker_dfs) = 1
    /\ ticker_dfs[1] # <<>>

\* C7: calculate_returns_and_std emits exactly one row per distinct year of
\* its input; a row's annualized_std is missing exactly when that year has
\* fewer than two defined log-returns; two price rows in one year give one
\* defined log-return and a missing std.
C7_StdMissingIffFewerThanTwo ==
    pc = "annualized" =>
        LET out == AnnualizedOf(yearly)
        IN  /\ YearsIn(out) = YearsIn(df_pl)
            /\ Len(out) = Cardinality(YearsIn(df_pl))
            /\ \A r \in RowsIn(out) :
                  (r.annualized_std = Null) <=>
                      (Cardinality(DefinedReturnsOfYear(r.year)) < 2)
            /\ (Len(df_pl) = 2 /\ df_pl[1].year = df_pl[2].year) =>
                  /\ Cardinality(DefinedReturnsOfYear(df_pl[1].year)) = 1
                  /\ out[1].annualized_std = Null
                  /\ out[1].annualized_log_returns # Null

\* C7 witness: a two-row series in one year has been aggregated
C7_Witness ==
    /\ pc = "annualized"
    /\ Len(df_pl) = 2
    /\ df_pl[1].year = df_pl[2].year
    /\ \E r \in yearly : r.count = 1 /\ r.yearly_std = Null /\ r.yearly_log_returns # Null

\* C8: the log-return of a row is taken against the preceding row of the
\* whole series: only the first row of the series has a missing log-return,
\* the first year contributes (rows of that year - 1) defined log-returns,
\* every later year as many as it has rows, the first of them computed from
\* the last close of the year before.
C8_ShiftOverWholeSeries ==
    /\ pc \in {"yearly", "annualized"} =>
          /\ \A k \in DOMAIN df_pl : (df_pl[k].log_returns = Null) <=> (k = 1)
          /\ \A k \in 2..Len(df_pl) :
                df_pl[k].year # df_pl[k - 1].year =>
                    df_pl[k].log_returns =
                        <<Log2(df_pl[k].close) - Log2(df_pl[k - 1].close), 1>>
    /\ pc = "annualized" =>
          \A r \in yearly :
              r.count = IF r.year = df_pl[1].year
                        THEN Cardinality(BarsOfYear(r.year)) - 1
                        ELSE Cardinality(BarsOfYear(r.year))

\* C8 witness: a later year of a single row, whose log-return is defined and
\* not zero
C8_Witness ==
    /\ pc = "annualized"
    /\ \E r \in yearly :
          /\ r.year # df_pl[1].year
          /\ r.count = 1
          /\ Cardinality(BarsOfYear(r.year)) = 1
          /\ r.yearly_log_returns # <<0, 1>>

\* the files of the first n tickers of TICKERS
PathsOfFirst(n) == {CsvPath(TICKERS[k]) : k \in 1..n}

====
